---- MODULE Spec2Model ----
(***************************************************************************)
(* Payments webhook: the transactional write path (PaymentService,        *)
(* PaymentRepository, withTx) over a PostgreSQL store with READ COMMITTED  *)
(* isolation, and the in-process sequential EventQueue that feeds it.      *)
(***************************************************************************)
EXTENDS Bags, FiniteSets, Integers, Sequences, TLC

(* ------------------------------ bounds -------------------------------- *)
MaxCalls == 3        \* direct handlePayment calls per behaviour
MaxAmount == 2       \* largest amount_cents a payload carries
MaxTotal == 2        \* invoices.total_cents of the larger invoice
MaxFaults == 1       \* storage faults (failed queries) per behaviour
MaxEnqueues == 3     \* calls of EventQueue.enqueue per behaviour
MaxRequests == 2     \* POST /webhooks/payments requests per behaviour

(* ------------------------------ domains ------------------------------- *)
Tx == {"t1", "t2"}                   \* concurrent callers / pool clients
EventIds == {"e1", "e2"}
InvoiceIds == {"inv1", "inv2"}       \* rows of table invoices
GhostInvoice == "inv9"               \* a well-formed id with no invoices row
Missing == ""                        \* an absent (falsy) payload field
NoTx == "none"
Req == {"r1", "r2"}                  \* HTTP requests being served at a time
\* the identifiers getEventId can return for the payloads above
QueueIds == EventIds \cup {"unknown"}

PaymentReceived == "payment_received"
Sent == "sent"
PartiallyPaid == "partially_paid"
Paid == "paid"
InvoiceStatus == {Sent, PartiallyPaid, Paid}

\* amounts of valid payloads: the smallest and the largest
Amounts == {1, MaxAmount}

\* payloads that pass handlePayment's validation
ValidPayloads ==
    [event_id : EventIds,
     invoice_id : InvoiceIds \cup {GhostInvoice},
     amount_cents : Amounts]

\* one payload per way of failing it
InvalidPayloads ==
    {[event_id |-> Missing, invoice_id |-> "inv1", amount_cents |-> 1],
     [event_id |-> "e1", invoice_id |-> Missing, amount_cents |-> 1],
     [event_id |-> "e1", invoice_id |-> "inv1", amount_cents |-> 0]}

Payloads == ValidPayloads \cup InvalidPayloads

\* payloads of webhook deliveries in the queue and endpoint specifications:
\* every event and invoice, and every way of failing validation, at the
\* smallest amount (the amounts matter to the ledger, which Spec exercises)
WebhookPayloads == {p \in Payloads : p.amount_cents <= 1}

\* invoices are created outside this program, with status at its default
InitialInvoices ==
    [i \in InvoiceIds |->
       [total_cents |-> IF i = "inv1" THEN MaxTotal ELSE 1, status |-> Sent]]

NoPayload == [event_id |-> Missing, invoice_id |-> Missing, amount_cents |-> 0]

NoResult == [kind |-> "none", status |-> 0]
Ok(code) == [kind |-> "ok", status |-> code]
Err(kind) == [kind |-> kind, status |-> 0]

\* a request slot with no request in it
IdleReq ==
    [pc |-> "idle", payload |-> NoPayload, route |-> FALSE, status |-> 0,
     exists |-> FALSE, fault |-> FALSE, thrown |-> NoResult]

IdleTx ==
    [pc |-> "idle", owner |-> "none", payload |-> NoPayload, invoice |-> {},
     ins |-> {}, upd |-> {}, totalPaid |-> 0, result |-> NoResult,
     client |-> FALSE, ended |-> "none", fault |-> FALSE, replay |-> FALSE,
     ticket |-> 0, acquired |-> 0, releases |-> 0, thrown |-> NoResult]

VARIABLES
    invoices,   \* committed rows of table invoices: id -> [total_cents, status]
    payments,   \* committed rows of table payments (a bag of rows)
    lock,       \* row lock on each invoice: the holding transaction or NoTx
    tx,         \* per caller: position in handlePayment/withTx and its locals
    calls,      \* number of direct handlePayment calls made
    faults,     \* number of storage faults injected
    queue,      \* EventQueue.queue: the backlog, oldest first
    processing, \* EventQueue.processing
    processedEvents,   \* EventQueue.processedEvents
    enqueued,   \* number of enqueue calls made
    tickets,    \* number of payloads appended to the backlog so far
    finished,   \* tickets whose handler invocation has settled
    failed,     \* per identifier: "no", "failed" once a handler invocation
                \* for it has failed, "retried" once a payload with it has
                \* been appended after that
    unhandled,  \* errors that left processNext (rejections nobody awaits)
    req,        \* per HTTP request being served: position in the route handler
    requests    \* number of requests received and of direct calls of a check

qvars == <<queue, processing, processedEvents, enqueued, tickets, finished,
          failed, unhandled>>
rvars == <<req, requests>>
vars == <<invoices, payments, lock, tx, calls, faults, queue, processing,
          processedEvents, enqueued, tickets, finished, failed, unhandled, req, requests>>

(* --------------------------- pure functions --------------------------- *)
RECURSIVE SumRows(_, _)
SumRows(B, S) ==
    IF S = {} THEN 0
    ELSE LET r == CHOOSE x \in S : TRUE
         IN  r.amount_cents * CopiesIn(r, B) + SumRows(B, S \ {r})

\* SELECT SUM(amount_cents) FROM payments WHERE invoice_id = $1; NULL -> 0
SumPaid(rows, invoiceId) ==
    SumRows(rows, {r \in BagToSet(rows) : r.invoice_id = invoiceId})

\* mutant: the comparison with the total is strict
DeriveStatusStrict(totalPaid, total_cents) ==
    IF totalPaid > total_cents THEN Paid
    ELSE IF totalPaid > 0 THEN PartiallyPaid
    ELSE Sent

\* mutant: only an exact match of the total counts as paid
DeriveStatusExact(totalPaid, total_cents) ==
    IF totalPaid = total_cents THEN Paid
    ELSE IF totalPaid > 0 THEN PartiallyPaid
    ELSE Sent

\* mutant: the else-if branch for a partial payment is missing
DeriveStatusNoPartial(totalPaid, total_cents) ==
    IF totalPaid >= total_cents THEN Paid ELSE Sent

\* newStatus as handlePayment derives it from totalPaid and invoice.total_cents
DeriveStatus(totalPaid, total_cents) ==
    IF totalPaid >= total_cents THEN Paid
    ELSE IF totalPaid > 0 THEN PartiallyPaid
    ELSE Sent

\* the PaymentRecord handlePayment hands to insertPayment
PaymentRecord(p) ==
    [event_id |-> p.event_id, invoice_id |-> p.invoice_id,
     amount_cents |-> p.amount_cents, type |-> PaymentReceived]

\* mutant: a conflict is detected only for events this process remembers
KeyOfRememberedEvent(eventId) ==
    {r \in BagToSet(payments) :
        r.event_id = eventId /\ eventId \in processedEvents}

\* mutant: event_id is no key, so no insert ever conflicts
NoUniqueKey(eventId) == {}

\* committed rows of payments whose primary key equals eventId
CommittedWithKey(eventId) == {r \in BagToSet(payments) : r.event_id = eventId}

\* other open transactions holding an uncommitted row with that primary key
PendingWithKey(t, eventId) ==
    {u \in Tx \ {t} : \E r \in tx[u].ins : r.event_id = eventId}

\* mutant: the sum runs outside the transaction and misses its own insert
VisibleCommittedOnly(committed, own) == committed

\* rows a statement sees under READ COMMITTED: the committed rows plus the
\* rows its own transaction (the same client) has inserted
Visible(committed, own) == committed (+) SetToBag(own)

VisiblePayments(t) == Visible(payments, tx[t].ins)

(* ------------------------------- Init --------------------------------- *)
Init ==
    /\ invoices = InitialInvoices
    /\ payments = EmptyBag
    /\ lock = [i \in InvoiceIds |-> NoTx]
    /\ tx = [t \in Tx |-> IdleTx]
    /\ calls = 0
    /\ faults = 0
    /\ queue = <<>>
    /\ processing = FALSE
    /\ processedEvents = {}
    /\ enqueued = 0
    /\ tickets = 0
    /\ finished = {}
    /\ failed = [i \in QueueIds |-> "no"]
    /\ unhandled = {}
    /\ req = [r \in Req |-> IdleReq]
    /\ requests = 0

(* ------------------------- transaction helpers ------------------------ *)
Set(t, r) == tx' = [tx EXCEPT ![t] = r]

\* mutant: the end of a transaction leaves its row locks in place
KeepLocks(t) == lock

\* locks a transaction holds are dropped when it ends (COMMIT or ROLLBACK)
ReleaseLocks(t) == [i \in InvoiceIds |-> IF lock[i] = t THEN NoTx ELSE lock[i]]

\* SELECT ... FROM invoices WHERE id = $1: the rows of the result
SelectInvoice(invoiceId) ==
    IF invoiceId \in DOMAIN invoices
    THEN {[id |-> invoiceId, total_cents |-> invoices[invoiceId].total_cents,
           status |-> invoices[invoiceId].status]}
    ELSE {}

\* mutant: a locking statement also waits when its own transaction holds the
\* row lock
RowLockNotReentrant(t, invoiceId) ==
    \A i \in InvoiceIds : i = invoiceId => lock[i] = NoTx

\* mutant: a locking statement does not wait for the holder of the row lock
RowLockAlwaysFree(t, invoiceId) == TRUE

\* a statement that locks row invoiceId waits while another transaction holds it
RowLockFree(t, invoiceId) ==
    \A i \in InvoiceIds : i = invoiceId => lock[i] \in {NoTx, t}

LockRow(t, invoiceId) ==
    /\ RowLockFree(t, invoiceId)
    /\ lock' = [i \in InvoiceIds |-> IF i = invoiceId THEN t ELSE lock[i]]

\* mutant: a plain SELECT, which takes no row lock
PlainSelect(t, invoiceId) == UNCHANGED lock

\* the FOR UPDATE clause of getInvoiceById's SELECT
ForUpdate(t, invoiceId) == LockRow(t, invoiceId)

\* mutant: the null check is missing
NotFoundNever(rows) == FALSE

\* if (!invoice) throw new NotFoundError('Invoice not found')
NotFound(rows) == rows = {}

\* mutant: the early return on an ignored insert is missing
AfterInsertNoReturn(r, inserted) == [r EXCEPT !.pc = "sum", !.ins = inserted]

\* mutant: an insert that returns no row is taken for a failure
AfterInsertConflictThrows(r, inserted) ==
    IF inserted = {}
    THEN [r EXCEPT !.pc = "rollback", !.result = Err("ConflictError"), !.invoice = {}]
    ELSE [r EXCEPT !.pc = "sum", !.ins = inserted]

\* if (!inserted) return 200 'Payment already processed'; else go on to the sum
AfterInsert(r, inserted) ==
    IF inserted = {}
    THEN [r EXCEPT !.pc = "commit", !.result = Ok(200), !.invoice = {}]
    ELSE [r EXCEPT !.pc = "sum", !.ins = inserted]

\* mutant: the amount check lets zero through (amount_cents < 0)
ValidateAllowsZero(p) ==
    IF p.invoice_id = Missing \/ p.event_id = Missing THEN Err("BadRequestError")
    ELSE IF p.amount_cents < 0 THEN Err("BadRequestError")
    ELSE NoResult

\* the synchronous head of handlePayment: validation, then withTx is entered
Validate(p) ==
    IF p.invoice_id = Missing \/ p.event_id = Missing THEN Err("BadRequestError")
    ELSE IF p.amount_cents <= 0 THEN Err("BadRequestError")
    ELSE NoResult

StartHandlePayment(p, owner, ticket) ==
    LET v == Validate(p) IN
    [IdleTx EXCEPT
       !.pc = IF v = NoResult THEN "connect" ELSE "settle",
       !.owner = owner, !.payload = p, !.result = v, !.ticket = ticket,
       !.replay = (CommittedWithKey(p.event_id) # {})]

(* ------------------------------ actions ------------------------------- *)
\* a caller invokes PaymentService.handlePayment(p) directly
handlePayment(t, p) ==
    /\ tx[t].pc = "idle"
    /\ calls < MaxCalls
    /\ Set(t, StartHandlePayment(p, "direct", 0))
    /\ calls' = calls + 1
    /\ UNCHANGED <<invoices, payments, lock, faults, qvars, rvars>>

\* withTx: const client = await pool.connect() resolves; BEGIN is sent
Connect(t) ==
    /\ tx[t].pc = "connect"
    /\ Set(t, [tx[t] EXCEPT !.pc = "begin", !.client = TRUE, !.acquired = 1])
    /\ UNCHANGED <<invoices, payments, lock, calls, faults, qvars, rvars>>

\* withTx: await client.query('BEGIN') resolves; fn(client) runs up to the
\* await of its first query (getInvoiceById's SELECT)
Begin(t) ==
    /\ tx[t].pc = "begin"
    /\ Set(t, [tx[t] EXCEPT !.pc = "load"])
    /\ UNCHANGED <<invoices, payments, lock, calls, faults, qvars, rvars>>

\* pool.connect() rejects: outside the try, so neither ROLLBACK nor release
ConnectFails(t) ==
    /\ tx[t].pc = "connect"
    /\ faults < MaxFaults
    /\ faults' = faults + 1
    /\ Set(t, [tx[t] EXCEPT !.pc = "settle", !.fault = TRUE,
                            !.result = Err("StorageError")])
    /\ UNCHANGED <<invoices, payments, lock, calls, qvars, rvars>>

\* client.query('BEGIN') rejects: inside the try, so ROLLBACK and release
BeginFails(t) ==
    /\ tx[t].pc = "begin"
    /\ faults < MaxFaults
    /\ faults' = faults + 1
    /\ Set(t, [tx[t] EXCEPT !.pc = "rollback",
                            !.fault = TRUE, !.result = Err("StorageError")])
    /\ UNCHANGED <<invoices, payments, lock, calls, qvars, rvars>>

\* repo.getInvoiceById: SELECT ... FOR UPDATE, then the null check
getInvoiceById(t) ==
    /\ tx[t].pc = "load"
    /\ LET id == tx[t].payload.invoice_id
           rows == SelectInvoice(id)
       IN  /\ ForUpdate(t, id)
           /\ IF NotFound(rows)
              THEN Set(t, [tx[t] EXCEPT !.pc = "rollback",
                                        !.result = Err("NotFoundError")])
              ELSE Set(t, [tx[t] EXCEPT !.pc = "insert", !.invoice = rows])
    /\ UNCHANGED <<invoices, payments, calls, faults, qvars, rvars>>

\* repo.insertPayment: INSERT ... ON CONFLICT (event_id) DO NOTHING RETURNING *
insertPayment(t) ==
    /\ tx[t].pc = "insert"
    /\ LET rec == PaymentRecord(tx[t].payload) IN
       IF CommittedWithKey(rec.event_id) # {}
       THEN \* ON CONFLICT DO NOTHING: no row is inserted or returned, and
            \* the foreign key is not looked at
            Set(t, AfterInsert(tx[t], {}))
       ELSE /\ PendingWithKey(t, rec.event_id) = {}   \* else wait for that tx
            /\ IF rec.invoice_id \notin DOMAIN invoices
               THEN \* foreign key payments.invoice_id -> invoices(id) is
                    \* violated by the row inserted
                    Set(t, [tx[t] EXCEPT !.pc = "rollback",
                                         !.result = Err("StorageError")])
               ELSE Set(t, AfterInsert(tx[t], {rec}))
    /\ UNCHANGED <<invoices, payments, lock, calls, faults, qvars, rvars>>

\* repo.getTotalPaid
getTotalPaid(t) ==
    /\ tx[t].pc = "sum"
    /\ Set(t, [tx[t] EXCEPT
                 !.pc = "update",
                 !.totalPaid = SumPaid(VisiblePayments(t), tx[t].payload.invoice_id)])
    /\ UNCHANGED <<invoices, payments, lock, calls, faults, qvars, rvars>>

\* mutant: the UPDATE is skipped when the status would not change
StatusWriteIfChanged(current, newStatus) ==
    IF current = newStatus THEN {} ELSE {newStatus}

\* await repo.updateInvoiceStatus(invoice_id, newStatus): the UPDATE is issued
\* whatever the current status is
StatusWrite(current, newStatus) == {newStatus}

\* newStatus, then repo.updateInvoiceStatus; the unit of work returns 201
updateInvoiceStatus(t) ==
    /\ tx[t].pc = "update"
    /\ LET id == tx[t].payload.invoice_id
           invoice == CHOOSE r \in tx[t].invoice : TRUE
       IN  /\ LockRow(t, id)
           /\ Set(t, [tx[t] EXCEPT
                        !.pc = "commit",
                        !.upd = StatusWrite(invoice.status,
                                  DeriveStatus(tx[t].totalPaid, invoice.total_cents)),
                        !.result = Ok(201),
                        !.invoice = {}, !.totalPaid = 0])   \* locals now dead
    /\ UNCHANGED <<invoices, payments, calls, faults, qvars, rvars>>

\* mutant: the insert is an upsert that replaces the rows of the invoice
WritesReplaceRows(t) ==
    /\ payments' = SetToBag({r \in BagToSet(payments) :
                                r.invoice_id # tx[t].payload.invoice_id})
                      (+) SetToBag(tx[t].ins)
    /\ invoices' = [i \in DOMAIN invoices |->
                      IF i = tx[t].payload.invoice_id /\ tx[t].upd # {}
                      THEN [invoices[i] EXCEPT
                              !.status = CHOOSE s \in tx[t].upd : TRUE]
                      ELSE invoices[i]]

\* COMMIT: the transaction's insert and update become visible together
WritesApplied(t) ==
    /\ payments' = payments (+) SetToBag(tx[t].ins)
    /\ invoices' = [i \in DOMAIN invoices |->
                      IF i = tx[t].payload.invoice_id /\ tx[t].upd # {}
                      THEN [invoices[i] EXCEPT
                              !.status = CHOOSE s \in tx[t].upd : TRUE]
                      ELSE invoices[i]]

\* mutant: the catch block ends the transaction with COMMIT
RollbackAppliesWrites(t) == WritesApplied(t)

\* ROLLBACK: the transaction's insert and update are discarded
WritesDiscarded(t) == UNCHANGED <<invoices, payments>>

\* mutant: release() follows COMMIT inside the try instead of a finally
releaseAfterCommitOnly(r) ==
    IF r.ended = "COMMIT"
    THEN [r EXCEPT !.client = FALSE, !.releases = @ + 1]
    ELSE r

\* withTx: finally { client.release() }
release(r) == [r EXCEPT !.client = FALSE, !.releases = @ + 1]

\* withTx: await client.query('COMMIT'); return result; finally release
Commit(t) ==
    /\ tx[t].pc = "commit"
    /\ WritesApplied(t)
    /\ lock' = ReleaseLocks(t)
    /\ Set(t, release([tx[t] EXCEPT !.pc = "settle", !.ended = "COMMIT",
                                    !.ins = {}, !.upd = {}]))
    /\ UNCHANGED <<calls, faults, qvars, rvars>>

\* withTx catch (err): await client.query('ROLLBACK'); throw err; finally
\* release
Rollback(t) ==
    /\ tx[t].pc = "rollback"
    /\ WritesDiscarded(t)
    /\ lock' = ReleaseLocks(t)
    /\ Set(t, release([tx[t] EXCEPT !.pc = "settle", !.ended = "ROLLBACK",
                                    !.thrown = tx[t].result,
                                    !.ins = {}, !.upd = {}]))
    /\ UNCHANGED <<calls, faults, qvars, rvars>>

\* withTx catch (err): client.query('ROLLBACK') itself rejects (the connection
\* is lost, the server ends the session and with it the transaction): the
\* catch block is left by ROLLBACK's error, err is dropped; finally release.
\* After a query that failed, this is the same storage fault, not a new one.
RollbackFails(t) ==
    /\ tx[t].pc = "rollback"
    /\ tx[t].fault \/ faults < MaxFaults
    /\ faults' = IF tx[t].fault THEN faults ELSE faults + 1
    /\ WritesDiscarded(t)
    /\ lock' = ReleaseLocks(t)
    /\ Set(t, release([tx[t] EXCEPT !.pc = "settle", !.ended = "ROLLBACK_FAILED",
                                    !.thrown = tx[t].result, !.fault = TRUE,
                                    !.result = Err("RollbackError"),
                                    !.ins = {}, !.upd = {}]))
    /\ UNCHANGED <<calls, qvars, rvars>>

\* the promise of handlePayment settles and the caller takes the result or
\* the error
Settle(t) ==
    /\ tx[t].pc = "settle"
    /\ tx[t].owner = "direct"
    /\ Set(t, IdleTx)
    /\ UNCHANGED <<invoices, payments, lock, calls, faults, qvars, rvars>>

\* a query inside the try rejects (connection or storage error)
QueryFails(t) ==
    /\ tx[t].pc \in {"load", "insert", "sum", "update", "commit"}
    /\ faults < MaxFaults
    /\ faults' = faults + 1
    /\ Set(t, [tx[t] EXCEPT !.pc = "rollback", !.fault = TRUE,
                            !.result = Err("StorageError"),
                            !.invoice = {}, !.totalPaid = 0])
    /\ UNCHANGED <<invoices, payments, lock, calls, qvars, rvars>>

TxStep(t) ==
    \/ Connect(t) \/ ConnectFails(t) \/ Begin(t) \/ BeginFails(t)
    \/ getInvoiceById(t)
    \/ insertPayment(t) \/ getTotalPaid(t) \/ updateInvoiceStatus(t)
    \/ Commit(t) \/ Rollback(t) \/ RollbackFails(t) \/ QueryFails(t)

DirectStep(t) == TxStep(t) \/ Settle(t)

Next ==
    \/ \E t \in Tx, p \in Payloads : handlePayment(t, p)
    \/ \E t \in Tx : DirectStep(t)

\* concurrent callers of PaymentService.handlePayment on one database
Spec == Init /\ [][Next]_vars

(* ----------------------------- EventQueue ----------------------------- *)
\* getEventId: (event as any).event_id || 'unknown'
getEventId(event) == IF event.event_id = Missing THEN "unknown" ELSE event.event_id

\* mutant: the re-entrancy flag is not consulted
EarlyReturnIgnoresFlag(proc, q) == q = <<>>

\* processNext: if (this.processing || this.queue.length === 0) return
EarlyReturn(proc, q) == proc \/ q = <<>>

\* mutant: the newest entry is taken (pop) instead of the oldest
Pop(q) == [event |-> q[Len(q)], rest |-> SubSeq(q, 1, Len(q) - 1)]

\* mutant: the oldest entry is read but left in the backlog (queue[0])
Peek(q) == [event |-> Head(q), rest |-> q]

\* const event = this.queue.shift()!
Shift(q) == [event |-> Head(q), rest |-> Tail(q)]

\* processNext up to its await, entered with backlog q, flag proc and the
\* transactions txf: the handler (paymentActor) calls handlePayment(event)
processNext(q, proc, txf) ==
    IF EarlyReturn(proc, q)
    THEN /\ queue' = q
         /\ processing' = proc
         /\ tx' = txf
    ELSE LET idle == {u \in Tx : txf[u].pc = "idle"}
             s == Shift(q)
         IN  /\ idle # {}
             /\ LET u == CHOOSE x \in idle : TRUE IN
                tx' = [txf EXCEPT
                         ![u] = StartHandlePayment(s.event.payload, "queue",
                                                   s.event.ticket)]
             /\ processing' = TRUE
             /\ queue' = s.rest

\* mutant: the fallback identifier is exempt from the test
AlreadyProcessedNamedOnly(eventId) ==
    eventId # "unknown" /\ eventId \in processedEvents

\* mutant: the processed-set is not consulted
NeverProcessed(eventId) == FALSE

\* if (this.processedEvents.has(eventId)) return
AlreadyProcessed(eventId) == eventId \in processedEvents

\* EventQueue.enqueue(event): what one call does to the queue instance
enqueue(p) ==
    /\ enqueued' = enqueued + 1
    /\ IF AlreadyProcessed(getEventId(p))
       THEN UNCHANGED <<queue, processing, tx, tickets, failed>>
       ELSE /\ tickets' = tickets + 1
            /\ failed' = IF failed[getEventId(p)] = "no" THEN failed
                         ELSE [failed EXCEPT ![getEventId(p)] = "retried"]
            /\ processNext(Append(queue, [payload |-> p, ticket |-> tickets + 1]),
                           processing, tx)
    /\ UNCHANGED <<processedEvents, finished, unhandled>>

\* some caller invokes paymentQueue.enqueue(p)
Enqueue(p) ==
    /\ enqueued < MaxEnqueues
    /\ enqueue(p)
    /\ UNCHANGED <<invoices, payments, lock, calls, faults, rvars>>

\* mutant: the finally block does not clear the flag
FinallyKeepsFlag(q, txf) ==
    /\ processing' = TRUE
    /\ tx' = txf
    /\ queue' = q

\* mutant: the finally block clears the flag but starts no further cycle
FinallyWithoutRestart(q, txf) ==
    /\ processing' = FALSE
    /\ tx' = txf
    /\ queue' = q

\* finally: this.processing = false; if (this.queue.length > 0) processNext()
Finally(q, txf) ==
    IF q # <<>>
    THEN processNext(q, FALSE, txf)
    ELSE /\ processing' = FALSE
         /\ tx' = txf
         /\ queue' = q

\* mutant: the set is replaced by one holding only the newest identifier
AfterHandlerReplaces(result, eventId) ==
    IF result.kind = "ok" THEN {eventId} ELSE processedEvents

\* mutant: the identifier is marked processed in the catch block as well
AfterHandlerAlwaysMarks(result, eventId) == processedEvents \cup {eventId}

\* try: await this.handler(event); this.processedEvents.add(eventId)
\* catch: log only
AfterHandler(result, eventId) ==
    IF result.kind = "ok" THEN processedEvents \cup {eventId} ELSE processedEvents

\* mutant: try/finally without the catch block: the handler's error leaves
\* processNext
NoCatch(result) == IF result.kind = "ok" THEN {} ELSE {result}

\* catch (err) { console.error(...) }: the handler's error is logged and
\* goes no further
Catch(result) == {}

\* the handler's promise settles and processNext resumes after its await:
\* try (mark processed) or catch (log), then finally
HandlerSettles(t) ==
    /\ tx[t].pc = "settle"
    /\ tx[t].owner = "queue"
    /\ processedEvents' = AfterHandler(tx[t].result, getEventId(tx[t].payload))
    /\ finished' = finished \cup {tx[t].ticket}
    /\ unhandled' = unhandled \cup Catch(tx[t].result)
    /\ failed' = IF tx[t].result.kind = "ok" THEN failed
                 ELSE [failed EXCEPT ![getEventId(tx[t].payload)] = "failed"]
    /\ Finally(queue, [tx EXCEPT ![t] = IdleTx])
    /\ UNCHANGED <<invoices, payments, lock, calls, faults, enqueued, tickets,
                   rvars>>

NextQueue ==
    \/ \E p \in WebhookPayloads : Enqueue(p)
    \/ \E t \in Tx : TxStep(t)
    \/ \E t \in Tx : HandlerSettles(t)

\* one EventQueue instance (paymentQueue) draining into handlePayment
SpecQueue == Init /\ [][NextQueue]_vars

\* the same, where every query the handler awaits is answered (with rows or
\* with an error) and the event loop runs the continuation of a settled
\* promise: no handler invocation hangs
FairSpecQueue ==
    /\ SpecQueue
    /\ WF_vars(\E t \in Tx : TxStep(t))
    /\ WF_vars(\E t \in Tx : HandlerSettles(t))

(* ------------------------------ restart ------------------------------- *)
\* the server process ends and is started again: the new EventQueue instance
\* has an empty backlog and processed-set (fields 4-7), the connections of
\* the old process are closed and their open transactions rolled back by
\* the database; the committed tables are all that survives
Restart ==
    /\ queue # <<>> \/ processing \/ processedEvents # {}
    /\ queue' = <<>>
    /\ processing' = FALSE
    /\ processedEvents' = {}
    /\ tx' = [t \in Tx |-> IdleTx]
    /\ lock' = [i \in InvoiceIds |-> NoTx]
    /\ tickets' = 0
    /\ finished' = {}
    /\ unhandled' = {}
    /\ failed' = [i \in QueueIds |-> "no"]
    /\ UNCHANGED <<invoices, payments, calls, faults, enqueued, rvars>>

NextRestart ==
    \/ \E p \in WebhookPayloads : Enqueue(p)
    \/ \E t \in Tx : TxStep(t)
    \/ \E t \in Tx : HandlerSettles(t)
    \/ Restart

\* the queue and its handler over restarts of the process
SpecRestart == Init /\ [][NextRestart]_vars

(* --------------------------- webhook endpoint -------------------------- *)
\* paymentSchema: event_id a non-empty string, invoice_id a uuid,
\* amount_cents a positive integer
paymentSchema(p) ==
    p.event_id # Missing /\ p.invoice_id # Missing /\ p.amount_cents > 0

\* repo.paymentExists(eventId): class PaymentRepository defines getInvoiceById,
\* insertPayment, getTotalPaid and updateInvoiceStatus and no paymentExists,
\* so the call throws a TypeError and sends no query
paymentExists(eventId) == Err("TypeError")

\* checkInvoiceExists: return invoice !== null
InvoiceExists(rows) == rows # {}

SetReq(r, v) == req' = [req EXCEPT ![r] = v]

Reply(r, code) == [req[r] EXCEPT !.pc = "replied", !.status = code]

\* the promise of r's check rejects: in the route handler the error is no
\* BadRequestError and no NotFoundError, so the catch block logs it and
\* answers 500; any other caller is handed the error
Rejects(v) ==
    IF v.route THEN [v EXCEPT !.pc = "replied", !.status = 500]
    ELSE [v EXCEPT !.pc = "rejected"]

\* a POST /webhooks/payments arrives; the preHandler validateBody answers 400
\* or hands the parsed body to the route handler, which calls
\* checkPaymentExists
Receive(r, p) ==
    /\ req[r].pc = "idle"
    /\ requests < MaxRequests
    /\ requests' = requests + 1
    /\ LET fresh == [IdleReq EXCEPT !.payload = p, !.route = TRUE]
       IN  req' = [req EXCEPT ![r] =
                      IF paymentSchema(p)
                      THEN [fresh EXCEPT !.pc = "checkPayment"]
                      ELSE [fresh EXCEPT !.pc = "replied", !.status = 400]]
    /\ UNCHANGED <<invoices, payments, lock, tx, calls, faults, qvars>>

\* a caller other than the route handler calls checkPaymentExists(p.event_id)
\* (check = "checkPayment") or checkInvoiceExists(p.invoice_id)
\* (check = "checkInvoice") of PaymentService
CallCheck(r, check, p) ==
    /\ req[r].pc = "idle"
    /\ requests < MaxRequests
    /\ requests' = requests + 1
    /\ SetReq(r, [IdleReq EXCEPT !.payload = p, !.pc = check])
    /\ UNCHANGED <<invoices, payments, lock, tx, calls, faults, qvars>>

\* withTx of either check: await pool.connect() resolves; BEGIN is sent
CheckConnect(r) ==
    /\ req[r].pc \in {"checkPayment", "checkInvoice"}
    /\ SetReq(r, [req[r] EXCEPT !.pc = IF @ = "checkPayment" THEN "paymentBegin"
                                       ELSE "invoiceBegin"])
    /\ UNCHANGED <<invoices, payments, lock, tx, calls, faults, qvars,
                   requests>>

\* checkPaymentExists: await client.query('BEGIN') resolves and the callback
\* runs: repo.paymentExists(eventId) throws, withTx's catch sends ROLLBACK
checkPaymentExists(r) ==
    /\ req[r].pc = "paymentBegin"
    /\ SetReq(r, [req[r] EXCEPT !.pc = "checkRollback",
                                !.thrown = paymentExists(req[r].payload.event_id)])
    /\ UNCHANGED <<invoices, payments, lock, tx, calls, faults, qvars,
                   requests>>

\* checkInvoiceExists: await client.query('BEGIN') resolves; the SELECT of
\* repo.getInvoiceById is sent
CheckBegin(r) ==
    /\ req[r].pc = "invoiceBegin"
    /\ SetReq(r, [req[r] EXCEPT !.pc = "invoiceSelect"])
    /\ UNCHANGED <<invoices, payments, lock, tx, calls, faults, qvars,
                   requests>>

\* checkInvoiceExists: repo.getInvoiceById (SELECT ... FOR UPDATE) is
\* answered; COMMIT is sent
checkInvoiceExists(r) ==
    /\ req[r].pc = "invoiceSelect"
    /\ LET id == req[r].payload.invoice_id IN
       /\ ForUpdate(r, id)
       /\ SetReq(r, [req[r] EXCEPT !.pc = "invoiceCommit",
                                   !.exists = InvoiceExists(SelectInvoice(id))])
    /\ UNCHANGED <<invoices, payments, tx, calls, faults, qvars, requests>>

\* checkInvoiceExists: COMMIT resolves and release; the row lock is dropped
\* and the check returns its answer
InvoiceChecked(r) ==
    /\ req[r].pc = "invoiceCommit"
    /\ lock' = ReleaseLocks(r)
    /\ SetReq(r, [req[r] EXCEPT !.pc = "returned"])
    /\ UNCHANGED <<invoices, payments, tx, calls, faults, qvars, requests>>

\* an awaited storage call of one of the two checks rejects: pool.connect()
\* is outside withTx's try, so the check rejects at once; BEGIN, the SELECT
\* and COMMIT are inside it, so ROLLBACK is sent
CheckFails(r) ==
    /\ req[r].pc \in {"checkPayment", "paymentBegin", "checkInvoice",
                      "invoiceBegin", "invoiceSelect", "invoiceCommit"}
    /\ faults < MaxFaults
    /\ faults' = faults + 1
    /\ LET v == [req[r] EXCEPT !.fault = TRUE, !.thrown = Err("StorageError")]
       IN  IF req[r].pc \in {"checkPayment", "checkInvoice"}
           THEN SetReq(r, Rejects(v))
           ELSE SetReq(r, [v EXCEPT !.pc = "checkRollback"])
    /\ UNCHANGED <<invoices, payments, lock, tx, calls, qvars, requests>>

\* withTx catch of a check: ROLLBACK settles (resolved, or rejected on a lost
\* connection, which ends the session), the row lock is dropped, release;
\* the check rejects
CheckRolledBack(r) ==
    /\ req[r].pc = "checkRollback"
    /\ lock' = ReleaseLocks(r)
    /\ SetReq(r, Rejects(req[r]))
    /\ UNCHANGED <<invoices, payments, tx, calls, faults, qvars, requests>>

\* the response has been sent
ResponseSent(r) ==
    /\ req[r].pc = "replied"
    /\ SetReq(r, IdleReq)
    /\ UNCHANGED <<invoices, payments, lock, tx, calls, faults, qvars,
                   requests>>

\* the route handler after validateBody: its first statement with an await
\* is checkPaymentExists, which rejects, so the lines after it (409,
\* checkInvoiceExists, 404, paymentQueue.enqueue, 202) are never run
RouteStep(r) ==
    \/ CheckConnect(r) \/ checkPaymentExists(r) \/ CheckFails(r)
    \/ CheckRolledBack(r) \/ ResponseSent(r)

NextRoute ==
    \/ \E r \in Req, p \in WebhookPayloads : Receive(r, p)
    \/ \E r \in Req : RouteStep(r)

\* the server under requests to POST /webhooks/payments
SpecRoute == Init /\ [][NextRoute]_vars

\* the caller of a check takes its answer or its error
ChecksReturn(r) ==
    /\ req[r].pc \in {"returned", "rejected"}
    /\ SetReq(r, IdleReq)
    /\ UNCHANGED <<invoices, payments, lock, tx, calls, faults, qvars,
                   requests>>

\* the steps of the two checks under any caller
CheckStep(r) ==
    \/ CheckConnect(r) \/ checkPaymentExists(r) \/ CheckBegin(r)
    \/ checkInvoiceExists(r) \/ InvoiceChecked(r) \/ CheckFails(r)
    \/ CheckRolledBack(r) \/ ChecksReturn(r)

\* what the callers contend for: every event identifier on every invoice
\* that has a row to lock
ContentionPayloads ==
    {p \in ValidPayloads : p.amount_cents = 1 /\ p.invoice_id \in InvoiceIds}

\* callers of PaymentService at the same time: the two boundary checks and
\* handlePayment compete for invoice row locks and event identifiers;
\* MaxRequests calls in all, of the checks and of handlePayment in any mix
NextContention ==
    \/ \E r \in Req, p \in ContentionPayloads :
          \E check \in {"checkPayment", "checkInvoice"} :
             calls + requests < MaxRequests /\ CallCheck(r, check, p)
    \/ \E r \in Req : CheckStep(r)
    \/ \E t \in Tx, p \in ContentionPayloads :
          calls + requests < MaxRequests /\ handlePayment(t, p)
    \/ \E t \in Tx : DirectStep(t)

SpecContention == Init /\ [][NextContention]_vars

\* payloads without event_id (two that differ) and payloads with one
AnonymousPayloads ==
    [event_id : {Missing}, invoice_id : InvoiceIds, amount_cents : {1}]

GenericPayloads ==
    AnonymousPayloads
      \cup {p \in ValidPayloads : p.amount_cents = 1 /\ p.invoice_id = "inv1"}

\* what a handler's promise can settle with
HandlerOutcomes == {Ok(0), Err("HandlerError")}

\* an EventQueue built with another handler than paymentQueue's (the handler
\* is a constructor argument): the invocation in flight resolves or rejects
\* as that handler decides, whatever the payload
AnyHandler(t, outcome) ==
    /\ tx[t].owner = "queue"
    /\ tx[t].pc # "idle"
    /\ tx[t].ended = "none"
    /\ Set(t, [tx[t] EXCEPT !.pc = "settle", !.result = outcome,
                            !.ended = "HANDLER"])
    /\ UNCHANGED <<invoices, payments, lock, calls, faults, qvars, rvars>>

NextGenericQueue ==
    \/ \E p \in GenericPayloads : Enqueue(p)
    \/ \E t \in Tx, outcome \in HandlerOutcomes : AnyHandler(t, outcome)
    \/ \E t \in Tx : HandlerSettles(t)

\* one EventQueue instance with an arbitrary handler
SpecGenericQueue == Init /\ [][NextGenericQueue]_vars

(* ------------------- handlePayment run to completion ------------------ *)
\* one handlePayment(p) with no other transaction open, as a function on the
\* committed tables db = [invoices, payments]
ApplyPayment(db, p) ==
    IF Validate(p) # NoResult THEN db
    ELSE IF p.invoice_id \notin DOMAIN db.invoices THEN db
    ELSE IF \E r \in BagToSet(db.payments) : r.event_id = p.event_id THEN db
    ELSE LET rec == PaymentRecord(p)
             totalPaid == SumPaid(Visible(db.payments, {rec}), p.invoice_id)
             newStatus == DeriveStatus(totalPaid,
                                       db.invoices[p.invoice_id].total_cents)
         IN  [invoices |-> [db.invoices EXCEPT ![p.invoice_id].status = newStatus],
              payments |-> db.payments (+) SetToBag({rec})]

RECURSIVE ApplyAll(_, _)
ApplyAll(db, ps) ==
    IF ps = <<>> THEN db ELSE ApplyAll(ApplyPayment(db, Head(ps)), Tail(ps))

RECURSIVE Perms(_)
Perms(S) ==
    IF S = {} THEN {<<>>}
    ELSE UNION {{<<x>> \o q : q \in Perms(S \ {x})} : x \in S}

(* ------------------------- claim vocabulary --------------------------- *)
Rank(status) ==
    IF status = Sent THEN 0 ELSE IF status = PartiallyPaid THEN 1 ELSE 2

RowsOfInvoice(rows, i) == {r \in BagToSet(rows) : r.invoice_id = i}

PayloadOf(r) ==
    [event_id |-> r.event_id, invoice_id |-> r.invoice_id,
     amount_cents |-> r.amount_cents]

InitialDb == [invoices |-> InitialInvoices, payments |-> EmptyBag]

\* t has just taken a step of its own
Stepped(t) == tx'[t] # tx[t]

\* t runs handlePayment on a valid payload, untouched by a storage fault
Sound(t) == Validate(tx[t].payload) = NoResult /\ ~tx[t].fault

Settled(t) == tx[t].pc = "settle"

\* t inserted a new row and its COMMIT succeeded
Committed201(t) ==
    Settled(t) /\ tx[t].ended = "COMMIT" /\ tx[t].result = Ok(201)

(* ------------------------------- claims ------------------------------- *)
\* C1: in every committed state of table payments, no two rows (and no two
\* copies of a row) carry the same event_id, whatever the number and the
\* interleaving of handlePayment executions with that event_id.
C1_OneRowPerEvent ==
    \A r1, r2 \in BagToSet(payments) :
        /\ CopiesIn(r1, payments) = 1
        /\ r1.event_id = r2.event_id => r1 = r2

\* a handlePayment that started before the row of its event was committed
\* lost the race for the key: its insert was ignored
C1_Witness ==
    \E t \in Tx :
        /\ Settled(t) /\ ~tx[t].replay /\ tx[t].result = Ok(200)
        /\ CommittedWithKey(tx[t].payload.event_id) # {}

\* the case C2 is about: the row of the event was committed before the call,
\* and the payload is valid and names an invoice that exists
ReplayCase(t) ==
    /\ tx[t].replay
    /\ Sound(t)
    /\ tx[t].payload.invoice_id \in DOMAIN invoices

\* C2: a handlePayment for an event_id whose row is already committed, on an
\* existing invoice, settles with 200 'already processed' after a COMMIT (not
\* a ROLLBACK), and none of its steps changes table payments or any invoice.
C2_ReplayIsNoOp ==
    /\ [](\A t \in Tx : ReplayCase(t) /\ Settled(t) =>
             tx[t].result = Ok(200) /\ tx[t].ended = "COMMIT")
    /\ [][\A t \in Tx : ReplayCase(t) /\ Stepped(t) =>
             payments' = payments /\ invoices' = invoices]_vars

\* a replay settled whose payload names another invoice or amount than the row
C2_Witness ==
    \E t \in Tx :
        /\ ReplayCase(t) /\ Settled(t) /\ tx[t].result = Ok(200)
        /\ \E r \in CommittedWithKey(tx[t].payload.event_id) :
              PayloadOf(r) # tx[t].payload

\* C3: the committed status of an invoice with payment rows is the one derived
\* from the sum of its committed rows: paid if sum >= total, partially_paid if
\* 0 < sum < total, sent otherwise.
C3_StatusFromLedger ==
    \A i \in InvoiceIds :
        RowsOfInvoice(payments, i) # {} =>
            LET sum == SumPaid(payments, i)
                total == invoices[i].total_cents
            IN  /\ sum >= total => invoices[i].status = Paid
                /\ (0 < sum /\ sum < total) => invoices[i].status = PartiallyPaid
                /\ sum <= 0 => invoices[i].status = Sent

\* a committed insert that left its invoice partially paid
C3_Witness ==
    \E t \in Tx :
        /\ Committed201(t)
        /\ invoices[tx[t].payload.invoice_id].status = PartiallyPaid

Quiescent == \A t \in Tx : tx[t].pc = "idle"

\* C4: whenever all executions have ended, applying the payment events the
\* invoice has received in any order, one handlePayment after the other from
\* the initial tables, ends in the status and the rows the invoice has now.
C4_OrderIndependent ==
    \A i \in InvoiceIds :
        LET mine == RowsOfInvoice(payments, i) IN
        Quiescent =>
        \A q \in Perms({PayloadOf(r) : r \in mine}) :
            LET db == ApplyAll(InitialDb, q) IN
            /\ db.invoices[i].status = invoices[i].status
            /\ RowsOfInvoice(db.payments, i) = mine

\* all executions ended, an invoice holds two payments of different amounts
C4_Witness ==
    Quiescent /\ \E i \in InvoiceIds : \E r1, r2 \in RowsOfInvoice(payments, i) :
        r1.amount_cents # r2.amount_cents

\* C5: no step moves an invoice's committed status down the order
\* sent < partially_paid < paid.
C5_StatusNeverRegresses ==
    [][\A i \in InvoiceIds :
          Rank(invoices'[i].status) >= Rank(invoices[i].status)]_vars

\* a payment was committed on an invoice that was already paid in full
C5_Witness ==
    \E t \in Tx :
        /\ Committed201(t)
        /\ LET i == tx[t].payload.invoice_id IN
           SumPaid(payments, i) - tx[t].payload.amount_cents
               >= invoices[i].total_cents

\* two executions for distinct events on one invoice, both committed
BothCommitted(t, u) ==
    /\ t # u
    /\ Committed201(t) /\ Committed201(u)
    /\ tx[t].payload.invoice_id = tx[u].payload.invoice_id
    /\ tx[t].payload.event_id # tx[u].payload.event_id

\* C6: once two concurrent executions for distinct events on one invoice have
\* both committed, both rows are stored and the status accounts for both
\* amounts: it is the status derived from their sum when they are the
\* invoice's only payments, and never below it.
C6_NoLostUpdate ==
    \A t, u \in Tx :
        BothCommitted(t, u) =>
            LET i == tx[t].payload.invoice_id
                both == tx[t].payload.amount_cents + tx[u].payload.amount_cents
            IN  /\ PaymentRecord(tx[t].payload) \in BagToSet(payments)
                /\ PaymentRecord(tx[u].payload) \in BagToSet(payments)
                /\ SumPaid(payments, i) >= both
                /\ SumPaid(payments, i) = both =>
                      invoices[i].status = DeriveStatus(both, invoices[i].total_cents)
                /\ Rank(invoices[i].status)
                     >= Rank(DeriveStatus(both, invoices[i].total_cents))

\* two such executions whose payments only together reach the total
C6_Witness ==
    \E t, u \in Tx :
        /\ BothCommitted(t, u)
        /\ LET total == invoices[tx[t].payload.invoice_id].total_cents IN
           /\ tx[t].payload.amount_cents < total
           /\ tx[u].payload.amount_cents < total
           /\ tx[t].payload.amount_cents + tx[u].payload.amount_cents >= total

\* C7: the committed tables change only in the COMMIT of a transaction that
\* carries both the new row and the status write, which become visible in
\* that one step; a transaction that failed at any query, or at COMMIT,
\* leaves the tables as they were.
C7_AllOrNothing ==
    [][(payments' # payments \/ invoices' # invoices) =>
          \E t \in Tx :
              /\ tx[t].pc = "commit" /\ tx'[t].ended = "COMMIT"
              /\ tx'[t].result = Ok(201)
              /\ tx[t].ins = {PaymentRecord(tx[t].payload)} /\ tx[t].upd # {}
              /\ payments' = payments (+) SetToBag(tx[t].ins)
              /\ \A i \in InvoiceIds :
                    invoices'[i] =
                        IF i = tx[t].payload.invoice_id
                        THEN [invoices[i] EXCEPT !.status = CHOOSE x \in tx[t].upd : TRUE]
                        ELSE invoices[i]]_vars

\* a transaction failed holding an uncommitted row: it is about to roll back
C7_Witness ==
    \E t \in Tx : tx[t].pc = "rollback" /\ tx[t].fault /\ tx[t].ins # {}

\* the case C8 is about: a valid payload whose invoice_id has no invoices row
UnknownInvoiceCase(t) ==
    /\ tx[t].pc # "idle"
    /\ Sound(t)
    /\ tx[t].payload.invoice_id \notin DOMAIN invoices

\* C8: handlePayment on a payload whose invoice_id matches no invoice settles
\* with NotFoundError after a ROLLBACK; table payments never holds a row for
\* such an invoice_id and none of its steps changes a table.
C8_UnknownInvoice ==
    /\ [](\A t \in Tx : UnknownInvoiceCase(t) /\ Settled(t) =>
             tx[t].result = Err("NotFoundError") /\ tx[t].ended = "ROLLBACK")
    /\ [](\A r \in BagToSet(payments) : r.invoice_id \in DOMAIN invoices)
    /\ [][\A t \in Tx : UnknownInvoiceCase(t) /\ Stepped(t) =>
             payments' = payments /\ invoices' = invoices]_vars

\* such a call settled, with payments already on the other invoices
C8_Witness ==
    \E t \in Tx :
        /\ UnknownInvoiceCase(t) /\ Settled(t)
        /\ tx[t].result = Err("NotFoundError")
        /\ payments # EmptyBag

\* handler invocations of the queue that have begun and not yet settled
InFlight == {t \in Tx : tx[t].owner = "queue" /\ tx[t].pc # "idle"}

\* tickets (positions in enqueue order) whose handler invocation has begun
Started == finished \cup {tx[t].ticket : t \in InFlight}

\* C9: handler invocations follow enqueue order: when the invocation for a
\* payload has begun, the invocation for every payload appended before it
\* has already settled (resolved or rejected).
C9_FifoOneAfterTheOther ==
    \A b \in Started : \A a \in 1..(b - 1) : a \in finished

\* the second payload is being handled after the first one's handler
\* rejected, while a third one waits
C9_Witness ==
    \E t \in InFlight :
        /\ tx[t].ticket = 2 /\ tx[t].pc = "sum"
        /\ 1 \in finished /\ processedEvents = {}
        /\ queue # <<>>

\* C10: at most one handler invocation of a queue instance is in flight,
\* however enqueue calls interleave with the handler's suspension points.
C10_SingleFlight == Cardinality(InFlight) <= 1

\* two enqueue calls arrived while one handler was between its queries
C10_Witness ==
    \E t \in InFlight :
        /\ tx[t].pc \in {"insert", "sum", "update", "commit"}
        /\ Len(queue) >= 2
        /\ processing

\* C11: an enqueue call whose event identifier is already in the
\* processed-set changes neither the backlog, the processed-set nor the
\* processing flag, and starts no handler invocation (no transaction slot
\* changes, no ticket is issued, nothing settles).
C11_ProcessedEnqueueIsNoOp ==
    [][\A p \in Payloads :
          (enqueue(p) /\ getEventId(p) \in processedEvents) =>
              /\ queue' = queue
              /\ processedEvents' = processedEvents
              /\ processing' = processing
              /\ tx' = tx /\ tickets' = tickets /\ finished' = finished]_vars

\* an enqueue call was dropped while the queue was idle
C11_Witness ==
    /\ enqueued > tickets
    /\ processedEvents # {}
    /\ ~processing /\ queue = <<>>

\* identifiers of the payloads the queue instance holds: the backlog, oldest
\* first, preceded by the in-flight entry if there is one
HeldIds ==
    LET head == IF InFlight = {} THEN <<>>
                ELSE <<getEventId(tx[CHOOSE t \in InFlight : TRUE].payload)>>
    IN  head \o [i \in 1..Len(queue) |-> getEventId(queue[i].payload)]

\* C12: within one queue instance the backlog together with the in-flight
\* entry never holds two payloads with the same event identifier.
C12_NoDuplicatePending ==
    \A i, j \in 1..Len(HeldIds) : HeldIds[i] = HeldIds[j] => i = j

\* the handler invocation in slot t has ended in failure (its promise rejected)
HandlerFailed(t) ==
    tx[t].pc = "settle" /\ tx[t].owner = "queue" /\ tx[t].result.kind # "ok"

\* the entry with ticket k is held by the queue: in the backlog or in flight
Holds(q, txf, k) ==
    \/ \E i \in 1..Len(q) : q[i].ticket = k
    \/ \E u \in Tx : txf[u].owner = "queue" /\ txf[u].pc # "idle" /\ txf[u].ticket = k

\* C13: the step in which processNext takes a handler failure leaves the
\* processed-set as it was and does not put the event back (the backlog only
\* loses its head, and the failed entry is no longer held); and an enqueue of
\* an identifier whose handler failed, and which is not in the processed-set,
\* is not short-circuited: the payload is appended under a new ticket.
C13_FailureIsNotRemembered ==
    /\ [][\A t \in Tx : (HandlerFailed(t) /\ HandlerSettles(t)) =>
             /\ processedEvents' = processedEvents
             /\ (queue' = queue \/ (queue # <<>> /\ queue' = Tail(queue)))
             /\ tickets' = tickets
             /\ ~Holds(queue', tx', tx[t].ticket)]_vars
    /\ [][\A p \in Payloads :
             (/\ enqueue(p)
              /\ failed[getEventId(p)] # "no"
              /\ getEventId(p) \notin processedEvents) =>
                 /\ tickets' = tickets + 1
                 /\ Holds(queue', tx', tickets')
                 /\ \/ \E i \in 1..Len(queue') :
                         queue'[i] = [payload |-> p, ticket |-> tickets']
                    \/ \E u \in Tx : tx'[u].ticket = tickets' /\ tx'[u].payload = p]_vars

\* the newest payload was appended after a handler invocation for its (valid)
\* identifier had failed, and is now being handled
C13_Witness ==
    \E t \in InFlight :
        LET id == getEventId(tx[t].payload) IN
        /\ id \in EventIds
        /\ failed[id] = "retried" /\ tx[t].ticket = tickets
        /\ id \notin processedEvents
        /\ tx[t].pc = "insert"

QueueIdle == ~processing /\ queue = <<>> /\ InFlight = {}

\* C14: when every handler invocation terminates, every payload appended to
\* the backlog eventually has the handler invoked on it, and, enqueue calls
\* being finitely many, the queue eventually stays idle with an empty backlog.
C14_NeverStarves ==
    /\ \A k \in 1..MaxEnqueues : (tickets >= k) ~> (k \in Started)
    /\ <>[]QueueIdle

\* the newest of three appended payloads waits behind one whose handler sits
\* between two queries
C14_Witness ==
    /\ Len(queue) = 2 /\ queue[2].ticket = 3
    /\ \E t \in InFlight : tx[t].ticket = 1 /\ tx[t].pc = "sum"

\* request r has been answered, and no query of its two checks failed
Answered(r) == req[r].pc = "replied" /\ ~req[r].fault

\* the entries of the backlog and the handler's current payload
QueuedPayloads ==
    {queue[i].payload : i \in 1..Len(queue)} \cup {tx[t].payload : t \in InFlight}

\* the case C16 is about: a well-formed request naming no invoices row
UnknownInvoiceRequest(r) ==
    /\ req[r].pc # "idle"
    /\ ~req[r].fault
    /\ paymentSchema(req[r].payload)
    /\ req[r].payload.invoice_id \notin DOMAIN invoices

\* C16: a request whose invoice_id matches no invoice and whose event_id has
\* no payments row is answered 404; no step of such a request calls enqueue,
\* and neither the backlog nor the handler ever holds a payload naming an
\* unknown invoice.
C16_UnknownInvoiceIs404 ==
    /\ [](\A r \in Req :
             (/\ UnknownInvoiceRequest(r) /\ Answered(r)
              /\ CommittedWithKey(req[r].payload.event_id) = {}) =>
                req[r].status = 404)
    /\ [](\A p \in QueuedPayloads : p.invoice_id \in DOMAIN invoices)
    /\ [][\A r \in Req : (UnknownInvoiceRequest(r) /\ req'[r] # req[r]) =>
             /\ enqueued' = enqueued /\ tickets' = tickets
             /\ queue' = queue /\ tx' = tx]_vars

\* t's withTx obtained a connection and has ended (resolved or rejected)
WithTxEnded(t) == Settled(t) /\ tx[t].acquired = 1

\* C17: a withTx that has ended resolved with the unit's result exactly when
\* its COMMIT succeeded; otherwise its catch block caught an error, issued
\* ROLLBACK, and withTx rejected with that same error.
C17_CommitOrRollback ==
    \A t \in Tx : WithTxEnded(t) =>
        /\ (tx[t].result.kind = "ok") <=> (tx[t].ended = "COMMIT")
        /\ tx[t].ended # "COMMIT" =>
              /\ tx[t].ended \in {"ROLLBACK", "ROLLBACK_FAILED"}
              /\ tx[t].thrown # NoResult
              /\ tx[t].result = tx[t].thrown

\* C18: a connection withTx has acquired is released exactly once by the time
\* withTx ends, whichever of BEGIN, the unit of work, COMMIT or ROLLBACK
\* threw; it is never released twice or without having been acquired, and a
\* call that has ended, or a free slot, holds no connection.
C18_ReleasedExactlyOnce ==
    \A t \in Tx :
        /\ tx[t].releases <= tx[t].acquired
        /\ tx[t].client <=> (tx[t].acquired = 1 /\ tx[t].releases = 0)
        /\ tx[t].pc \in {"settle", "idle"} =>
              (~tx[t].client /\ tx[t].releases = tx[t].acquired)

\* a withTx ended whose ROLLBACK threw, after its unit of work had thrown
C18_Witness ==
    \E t \in Tx :
        /\ WithTxEnded(t) /\ tx[t].ended = "ROLLBACK_FAILED"
        /\ tx[t].thrown = Err("NotFoundError")
        /\ tx[t].releases = 1

\* a payload with a missing event id, a missing invoice id or an amount that
\* is not strictly positive
Malformed(p) ==
    p.event_id = Missing \/ p.invoice_id = Missing \/ p.amount_cents <= 0

\* slot t holds a handlePayment call on a malformed payload
MalformedCall(t) == tx[t].pc # "idle" /\ Malformed(tx[t].payload)

\* C19: handlePayment on a malformed payload fails with the validation error
\* at once: the call never obtains a connection, opens or ends a transaction
\* or holds a write or a lock, and neither the call nor its settling changes
\* table payments, an invoice or a row lock.
C19_ValidationBeforeTx ==
    /\ [](\A t \in Tx : MalformedCall(t) =>
             /\ tx[t].pc = "settle"
             /\ tx[t].result = Err("BadRequestError")
             /\ tx[t].acquired = 0 /\ ~tx[t].client /\ tx[t].ended = "none"
             /\ tx[t].ins = {} /\ tx[t].upd = {}
             /\ \A i \in InvoiceIds : lock[i] # t)
    /\ [][\A t \in Tx : (Stepped(t) /\ (MalformedCall(t) \/ MalformedCall(t)')) =>
             payments' = payments /\ invoices' = invoices /\ lock' = lock]_vars

\* a call with amount 0 was rejected while another call held an invoice's
\* row lock and an uncommitted row
C19_Witness ==
    \E t, u \in Tx :
        /\ MalformedCall(t) /\ tx[t].payload.amount_cents = 0
        /\ tx[t].payload.invoice_id = tx[u].payload.invoice_id
        /\ tx[u].pc = "sum" /\ lock[tx[u].payload.invoice_id] = u

\* C20: in every step, each committed payments row is still there afterwards,
\* in as many copies, and the row stored under its event_id is that same row:
\* its invoice_id, amount_cents and type are unchanged.
C20_RowsOnlyGrow ==
    [][\A r \in BagToSet(payments) :
          /\ CopiesIn(r, payments') >= CopiesIn(r, payments)
          /\ \A r2 \in BagToSet(payments') :
                r2.event_id = r.event_id =>
                    /\ r2.invoice_id = r.invoice_id
                    /\ r2.amount_cents = r.amount_cents
                    /\ r2.type = r.type]_vars

\* a replay that names another invoice and another amount than the stored row
\* of its event has gone through its insert and is about to commit
C20_Witness ==
    \E t \in Tx : \E r \in CommittedWithKey(tx[t].payload.event_id) :
        /\ tx[t].pc = "commit" /\ tx[t].result = Ok(200)
        /\ r.invoice_id # tx[t].payload.invoice_id
        /\ r.amount_cents # tx[t].payload.amount_cents
        /\ Cardinality(BagToSet(payments)) = 2

\* C21: also across restarts that empty the processed-set and the backlog,
\* no event has more than one payments row, and a handler invocation for an
\* event whose row was committed before it began changes neither table
\* payments nor any invoice in any of its steps.
C21_IdempotentAcrossRestart ==
    /\ [](\A r1, r2 \in BagToSet(payments) :
             /\ CopiesIn(r1, payments) = 1
             /\ r1.event_id = r2.event_id => r1 = r2)
    /\ [][\A t \in Tx : (tx[t].owner = "queue" /\ tx[t].replay /\ Stepped(t)) =>
             payments' = payments /\ invoices' = invoices]_vars

\* after a restart (the processed-set no longer knows the event) a re-delivered
\* event whose row is committed went through the insert and is about to commit
C21_Witness ==
    \E t \in InFlight :
        /\ tx[t].replay /\ tx[t].pc = "commit" /\ tx[t].result = Ok(200)
        /\ getEventId(tx[t].payload) \notin processedEvents
        /\ invoices[tx[t].payload.invoice_id].status = Paid

\* slot t takes its COMMIT step
Commits(t) == tx[t].pc = "commit" /\ tx'[t].ended = "COMMIT"

\* C22: a transaction that commits carries as many status writes as new rows:
\* one row and one write, on the invoice of that row, which takes effect with
\* the row, or neither; a transaction that holds a write or a row at any
\* point holds at most one of each and never a write without a row.
C22_OneStatusWritePerRow ==
    /\ [](\A t \in Tx :
             /\ Cardinality(tx[t].ins) <= 1 /\ Cardinality(tx[t].upd) <= 1
             /\ tx[t].upd # {} => tx[t].ins # {})
    /\ [][\A t \in Tx : Commits(t) =>
             /\ Cardinality(tx[t].upd) = Cardinality(tx[t].ins)
             /\ \A r \in tx[t].ins : \A w \in tx[t].upd :
                   /\ r.invoice_id = tx[t].payload.invoice_id
                   /\ invoices'[r.invoice_id].status = w
                   /\ \A i \in InvoiceIds \ {r.invoice_id} : invoices'[i] = invoices[i]
             /\ tx[t].ins = {} => invoices' = invoices /\ payments' = payments]_vars

\* a payment on an invoice that is already paid is about to commit: its
\* status write carries the status the invoice already has
C22_Witness ==
    \E t \in Tx :
        /\ tx[t].pc = "commit" /\ tx[t].ins # {}
        /\ tx[t].upd = {invoices[tx[t].payload.invoice_id].status}
        /\ invoices[tx[t].payload.invoice_id].status = Paid

\* transaction t has loaded its invoice and has neither committed nor rolled
\* back
BetweenLoadAndEnd(t) ==
    \/ tx[t].pc \in {"insert", "sum", "update", "commit"}
    \/ tx[t].pc = "rollback" /\ tx[t].result # Err("NotFoundError")
                             /\ \E i \in InvoiceIds : lock[i] = t

\* C23: a handlePayment transaction that has loaded an existing invoice holds
\* that invoice's row lock at every point up to its COMMIT; two transactions
\* are never both past the load of the same invoice; a lock leaves its holder
\* only in the holder's COMMIT or ROLLBACK step, and a transaction that has
\* ended (or not yet loaded) holds no lock.
C23_LockHeldUntilEnd ==
    /\ [](\A t \in Tx : \A i \in InvoiceIds :
             /\ (tx[t].pc \in {"insert", "sum", "update", "commit"}
                   /\ tx[t].payload.invoice_id = i) => lock[i] = t
             /\ lock[i] = t => BetweenLoadAndEnd(t) /\ tx[t].payload.invoice_id = i
             /\ tx[t].pc \in {"idle", "connect", "begin", "load", "settle"}
                   => lock[i] # t)
    /\ [](\A t, u \in Tx :
             (t # u /\ BetweenLoadAndEnd(t) /\ BetweenLoadAndEnd(u))
                => tx[t].payload.invoice_id # tx[u].payload.invoice_id)
    /\ [][\A t \in Tx : \A i \in InvoiceIds :
             (lock[i] = t /\ lock'[i] # t) =>
                /\ tx[t].pc \in {"commit", "rollback"}
                /\ tx'[t].pc = "settle"
                /\ tx'[t].ended \in {"COMMIT", "ROLLBACK", "ROLLBACK_FAILED"}
                /\ lock'[i] = NoTx]_vars

\* one transaction is rolling back with the lock of its invoice still held
\* while the other waits at the load of the same invoice
C23_Witness ==
    \E t, u \in Tx : \E i \in InvoiceIds :
        /\ t # u
        /\ tx[t].pc = "rollback" /\ lock[i] = t
        /\ tx[u].pc = "load" /\ tx[u].payload.invoice_id = i

\* where the entry with ticket k is: the backlog positions and the handler
\* invocations that hold it, and whether its invocation has settled
PendingAt(q, k) == {i \in 1..Len(q) : q[i].ticket = k}
HandledBy(txf, k) ==
    {u \in Tx : txf[u].owner = "queue" /\ txf[u].pc # "idle" /\ txf[u].ticket = k}
Stage(q, txf, fin, k) ==
    IF PendingAt(q, k) # {} THEN 1
    ELSE IF HandledBy(txf, k) # {} THEN 2
    ELSE IF k \in fin THEN 3
    ELSE 0

\* C24: every payload appended to the backlog is at each moment in exactly
\* one place (one backlog position, one handler invocation, or settled);
\* it only moves forward, pending -> in flight -> settled, one stage at a
\* time, so it is handed to the handler once and never goes back to the
\* backlog; and when handler invocations terminate it does reach the end.
C24_EachPayloadOnce ==
    /\ [](\A k \in 1..MaxEnqueues :
             Cardinality(PendingAt(queue, k)) + Cardinality(HandledBy(tx, k))
                + (IF k \in finished THEN 1 ELSE 0)
             = (IF k <= tickets THEN 1 ELSE 0))
    /\ [][\A k \in 1..MaxEnqueues :
             LET a == Stage(queue, tx, finished, k)
                 b == Stage(queue', tx', finished', k)
             IN  /\ b \in {a, a + 1} \/ (a = 0 /\ b = 2)
                 /\ a = 0 /\ b # 0 => k = tickets'
                 /\ a = 2 /\ b = 2 => HandledBy(tx', k) = HandledBy(tx, k)]_vars
    /\ \A k \in 1..MaxEnqueues : (tickets >= k) ~> (k \in finished)

\* the first payload's handler failed and it was dropped, the second is in
\* flight, the third still waits
C24_Witness ==
    /\ 1 \in finished /\ processedEvents = {}
    /\ \E t \in InFlight : tx[t].ticket = 2 /\ tx[t].pc = "commit"
    /\ Len(queue) = 1 /\ queue[1].ticket = 3

\* C25: no handler error leaves processNext; the step that takes a handler
\* failure clears the processing flag when the backlog is empty and otherwise
\* starts the handler on the oldest waiting entry; and an enqueue call made
\* after a failure completes as usual: it returns at once for a remembered
\* identifier and otherwise the payload is in the backlog or in flight.
C25_FailureDoesNotStopTheQueue ==
    /\ [](unhandled = {})
    /\ [][\A t \in Tx : (HandlerFailed(t) /\ HandlerSettles(t)) =>
             IF queue = <<>>
             THEN ~processing' /\ queue' = <<>> /\ \A u \in Tx : tx'[u].pc = "idle"
             ELSE /\ processing' /\ queue' = Tail(queue)
                  /\ \E u \in Tx :
                        /\ tx'[u].owner = "queue" /\ tx'[u].pc # "idle"
                        /\ tx'[u].ticket = Head(queue).ticket
                        /\ tx'[u].payload = Head(queue).payload]_vars
    /\ [][\A p \in Payloads :
             (enqueue(p) /\ \E i \in QueueIds : failed[i] # "no") =>
                /\ enqueued' = enqueued + 1
                /\ IF getEventId(p) \in processedEvents
                   THEN queue' = queue /\ tx' = tx /\ processing' = processing
                   ELSE Holds(queue', tx', tickets') /\ processing']_vars

\* the first payload's handler failed; the second, which waited behind it,
\* was then handled and its handler has resolved
C25_Witness ==
    \E t \in InFlight :
        /\ tx[t].ticket = 2 /\ tx[t].pc = "settle" /\ tx[t].result = Ok(201)
        /\ 1 \in finished /\ processedEvents = {}
        /\ enqueued = 2

\* C26: the COMMIT step of a handlePayment transaction adds the row of its
\* payload exactly when the call returns 201 and adds nothing exactly when
\* it returns 200, in which case a row with the event identifier is already
\* committed; rows appear in no other step; a call returns a status only
\* after COMMIT and only 200 or 201; and an insert that finds the identifier
\* taken continues to COMMIT with 200 instead of failing.
C26_StatusTellsRowCreated ==
    /\ [][\A t \in Tx : Commits(t) =>
             LET p == tx[t].payload IN
             /\ tx'[t].result \in {Ok(200), Ok(201)}
             /\ tx'[t].result = Ok(201) <=>
                   /\ payments' = payments (+) SetToBag({PaymentRecord(p)})
                   /\ CommittedWithKey(p.event_id) = {}
             /\ tx'[t].result = Ok(200) <=>
                   /\ payments' = payments
                   /\ CommittedWithKey(p.event_id) # {}]_vars
    /\ [][payments' # payments => \E t \in Tx : Commits(t)]_vars
    /\ [](\A t \in Tx : (tx[t].pc = "settle" /\ tx[t].result.kind = "ok") =>
             /\ tx[t].ended = "COMMIT"
             /\ CommittedWithKey(tx[t].payload.event_id) # {})
    /\ [][\A t \in Tx :
             (/\ tx[t].pc = "insert" /\ tx'[t].pc # "insert" /\ ~tx'[t].fault
              /\ CommittedWithKey(tx[t].payload.event_id) # {})
                => tx'[t].pc = "commit" /\ tx'[t].result = Ok(200)]_vars

\* a call that started before any row with its identifier existed lost the
\* race for it to a concurrent call and has returned 200
C26_Witness ==
    \E t \in Tx :
        /\ tx[t].pc = "settle" /\ tx[t].result = Ok(200) /\ ~tx[t].replay
        /\ tx[t].ended = "COMMIT"

\* request r is inside checkPaymentExists or checkInvoiceExists
InCheck(r) ==
    req[r].pc \in {"checkPayment", "paymentBegin", "checkInvoice",
                   "invoiceBegin", "invoiceSelect", "invoiceCommit",
                   "checkRollback"}

\* C27: no step of checkPaymentExists or checkInvoiceExists (a failing one
\* included) changes a payment row or an invoice; a request holds a row lock
\* only between the SELECT ... FOR UPDATE of checkInvoiceExists and the end
\* (COMMIT or ROLLBACK) of that check's transaction, only on the invoice it
\* asked for, and holds none once the check has returned.
C27_ChecksAreReadOnly ==
    /\ [][\A r \in Req : (InCheck(r) /\ req'[r] # req[r]) =>
             payments' = payments /\ invoices' = invoices]_vars
    /\ [](\A r \in Req : \A i \in InvoiceIds :
             lock[i] = r => /\ req[r].pc \in {"invoiceCommit", "checkRollback"}
                            /\ req[r].payload.invoice_id = i)
    /\ [][\A r \in Req :
             (/\ req[r].pc \in {"invoiceCommit", "checkRollback"}
              /\ req'[r] # req[r] /\ req'[r].pc # "checkRollback") =>
                /\ req'[r].pc \in {"returned", "rejected", "replied"}
                /\ \A i \in InvoiceIds : lock'[i] # r]_vars

\* checkInvoiceExists has found (and locked, and released) the invoice it
\* was asked for and has returned true, while a handlePayment transaction
\* for the same invoice is between its queries and holds the row lock again
C27_Witness ==
    \E r \in Req : \E t \in Tx :
        /\ req[r].pc = "returned" /\ req[r].exists
        /\ tx[t].payload.invoice_id = req[r].payload.invoice_id
        /\ tx[t].pc = "sum" /\ lock[req[r].payload.invoice_id] = t

\* C29: at every suspension point, if the backlog is not empty then a
\* processing cycle is active: the flag is set and a handler invocation is
\* in flight; and the flag is set only while an invocation is in flight.
C29_NeverIdleWhilePending ==
    /\ queue # <<>> => processing /\ InFlight # {}
    /\ processing <=> InFlight # {}

\* the first payload has been processed, the second is being handled and a
\* third waits in the backlog
C29_Witness ==
    /\ Len(queue) = 1 /\ processing
    /\ 1 \in finished /\ processedEvents # {}
    /\ \E t \in InFlight : tx[t].ticket = 2 /\ tx[t].pc = "load"

\* C30: in the payment queue, the processed-set never loses an identifier; an
\* identifier enters it only in the step in which processNext takes the
\* success of a handler invocation for a payload with that identifier; and
\* every identifier in it has a committed payment row.
C30_ProcessedSetIsSound ==
    /\ [][processedEvents \subseteq processedEvents']_vars
    /\ [][\A id \in processedEvents' \ processedEvents :
             \E t \in Tx :
                /\ HandlerSettles(t)
                /\ tx[t].result.kind = "ok" /\ tx[t].ended = "COMMIT"
                /\ getEventId(tx[t].payload) = id]_vars
    /\ [](\A id \in processedEvents : CommittedWithKey(id) # {})

\* an identifier is in the processed-set after a first handler invocation
\* for it had failed and the event was enqueued again
C30_Witness ==
    \E id \in processedEvents :
        /\ failed[id] = "retried"
        /\ CommittedWithKey(id) # {} /\ ~processing

\* the operations that can hold or wait for a lock: handlePayment
\* transactions and the transactions of the boundary checks
Ops == Tx \cup Req

\* x has begun and has neither committed nor rolled back
Open(x) ==
    IF x \in Tx
    THEN tx[x].pc \in {"begin", "load", "insert", "sum", "update", "commit", "rollback"}
    ELSE req[x].pc \in {"paymentBegin", "invoiceBegin", "invoiceSelect",
                        "invoiceCommit", "checkRollback"}

\* the holder of the row lock that x's next statement needs, if another has it
LockWait(x, invoiceId) ==
    IF invoiceId \in InvoiceIds /\ lock[invoiceId] \notin {NoTx, x}
    THEN {lock[invoiceId]} ELSE {}

\* the transactions whose uncommitted row x's insert has to wait for
InsertWait(t) ==
    IF CommittedWithKey(tx[t].payload.event_id) = {}
    THEN PendingWithKey(t, tx[t].payload.event_id) ELSE {}

\* the operations x is waiting for at its next statement
WaitsFor(x) ==
    IF x \in Tx
    THEN CASE tx[x].pc \in {"load", "update"} -> LockWait(x, tx[x].payload.invoice_id)
           [] tx[x].pc = "insert" -> InsertWait(x)
           [] OTHER -> {}
    ELSE IF req[x].pc = "invoiceSelect"
         THEN LockWait(x, req[x].payload.invoice_id) ELSE {}

\* the next statement of x (no storage fault) can run now
CanRun(x) ==
    IF x \in Tx
    THEN ENABLED (\/ Begin(x) \/ getInvoiceById(x) \/ insertPayment(x) \/ getTotalPaid(x)
                  \/ updateInvoiceStatus(x) \/ Commit(x) \/ Rollback(x))
    ELSE ENABLED (\/ CheckBegin(x) \/ checkPaymentExists(x)
                  \/ checkInvoiceExists(x) \/ InvoiceChecked(x)
                  \/ CheckRolledBack(x))

\* position of a handlePayment transaction on its way to the end
Progress(pc) ==
    CASE pc = "idle" -> 0 [] pc = "connect" -> 1 [] pc = "begin" -> 2
      [] pc = "load" -> 3 [] pc = "insert" -> 4 [] pc = "sum" -> 5
      [] pc = "update" -> 6 [] pc = "commit" -> 7 [] pc = "rollback" -> 8
      [] OTHER -> 9

\* C31: at every state each open transaction (of handlePayment or of a
\* boundary check) waits for at most one other, the one it waits for is open,
\* and following the waits ends after at most two hops at a transaction that
\* waits for nobody (a check or a load waits for a lock holder, which at most
\* waits for the owner of a pending event identifier, which never waits);
\* a transaction that waits for nobody can run its next statement; a
\* handlePayment transaction waits only at the invoice load and at the
\* insert; and every step a transaction takes moves it forward, so it reaches
\* its end after at most eight steps.
C31_NoDeadlock ==
    /\ [](\A x \in Ops :
             /\ Cardinality(WaitsFor(x)) <= 1
             /\ x \notin WaitsFor(x)
             /\ \A h \in WaitsFor(x) :
                   /\ Open(h)
                   /\ \A g \in WaitsFor(h) : Open(g) /\ WaitsFor(g) = {} /\ g # x
             /\ (Open(x) /\ WaitsFor(x) = {}) => CanRun(x)
             /\ (x \in Tx /\ WaitsFor(x) # {}) => tx[x].pc \in {"load", "insert"})
    /\ [][\A t \in Tx : (Stepped(t) /\ tx[t].pc # "settle") =>
             Progress(tx'[t].pc) > Progress(tx[t].pc)]_vars

\* a boundary check waits, at its SELECT ... FOR UPDATE, for the row lock of
\* a handlePayment transaction that a failed query has sent to its ROLLBACK,
\* which is still pending
C31_Witness ==
    \E r \in Req : \E t \in Tx :
        /\ req[r].pc = "invoiceSelect" /\ WaitsFor(r) = {t}
        /\ tx[t].pc = "rollback" /\ tx[t].fault
        /\ lock[tx[t].payload.invoice_id] = t

\* C32: a handlePayment transaction that commits a new row writes
\* partially_paid or paid, never sent, and the invoice has that status after
\* the COMMIT; hence no invoice with a committed payment row has status sent.
C32_NeverSentAfterPayment ==
    /\ [][\A t \in Tx : (Commits(t) /\ tx[t].ins # {}) =>
             /\ tx[t].upd # {} /\ tx[t].upd \subseteq {PartiallyPaid, Paid}
             /\ invoices'[tx[t].payload.invoice_id].status \in {PartiallyPaid, Paid}]_vars
    /\ [](\A i \in InvoiceIds :
             RowsOfInvoice(payments, i) # {} => invoices[i].status # Sent)

\* the first payment on an invoice, smaller than the invoice total, has been
\* committed: the total paid is as close to nothing as a payment can leave it
C32_Witness ==
    \E t \in Tx :
        LET i == tx[t].payload.invoice_id IN
        /\ Committed201(t)
        /\ Cardinality(RowsOfInvoice(payments, i)) = 1
        /\ SumPaid(payments, i) = 1 /\ invoices[i].total_cents > 1
        /\ invoices[i].status = PartiallyPaid

\* payload p carries no event_id
Anonymous(p) == p.event_id = Missing

\* C33: every payload without event_id has the identifier 'unknown'; that
\* identifier enters the processed-set only when a handler invocation for
\* such a payload succeeds; and from then on an enqueue of any payload
\* without event_id changes neither the backlog nor the flag, issues no
\* ticket and starts no handler invocation.
C33_UnknownIsShared ==
    /\ [](\A p \in GenericPayloads \cup Payloads :
             Anonymous(p) <=> getEventId(p) = "unknown")
    /\ [][("unknown" \in processedEvents' /\ "unknown" \notin processedEvents) =>
             \E t \in Tx : /\ HandlerSettles(t) /\ Anonymous(tx[t].payload)
                           /\ tx[t].result.kind = "ok"]_vars
    /\ [][\A p \in GenericPayloads :
             (enqueue(p) /\ Anonymous(p) /\ "unknown" \in processedEvents) =>
                /\ queue' = queue /\ processing' = processing
                /\ tx' = tx /\ tickets' = tickets
                /\ processedEvents' = processedEvents]_vars

\* a payload without event_id was handled successfully, and an enqueue made
\* after that was dropped: the queue is idle although fewer payloads were
\* appended than enqueue calls were made
C33_Witness ==
    /\ processedEvents = {"unknown"}
    /\ enqueued > tickets
    /\ queue = <<>> /\ ~processing
====
